---- MODULE Spec2Model ----
(***************************************************************************)
(* Auto-discovery sweep of custom_components/powercalc/discovery.py:       *)
(* DiscoveryManager.start_discovery and the helpers it calls.              *)
(*                                                                         *)
(* Text values (manufacturer, model, display name, unique id) are          *)
(* sequences of one-character strings so that str(), replace(), the       *)
(* f-string prefix and re.search are computed, not assumed.  Entity ids,  *)
(* domains and device ids are only compared, and are plain strings.        *)
(***************************************************************************)
EXTENDS Integers, Sequences, FiniteSets, TLC

(***************************************************************************)
(* Bounds of the model.                                                    *)
(***************************************************************************)
\* largest number of entries in the entity registry
MaxRegistry == 2
\* largest number of configuration entries of this domain in the store
MaxStore == 1
\* largest number of start_discovery runs on the one DiscoveryManager
MaxRuns == 2

(***************************************************************************)
(* Python values.                                                          *)
(***************************************************************************)
\* Python's None where a text value is expected
None == <<"<None>">>
\* Python's None where an entity id / device id is expected
NoneId == "<None>"

\* str(x) for a text value or None
Str(x) == IF x = None THEN <<"N","o","n","e">> ELSE x

\* truthiness of a text value or None
Truthy(x) == x # None /\ Len(x) > 0

Upper == <<"A","B","C","D","E","F","G","H","I","J","K","L","M","N","O","P","Q","R","S","T","U","V","W","X","Y","Z">>
Lower == <<"a","b","c","d","e","f","g","h","i","j","k","l","m","n","o","p","q","r","s","t","u","v","w","x","y","z">>

\* case folding of one character, as re.IGNORECASE does for ASCII letters
LowerChar(c) == IF \E i \in 1..26 : Upper[i] = c
                THEN Lower[CHOOSE i \in 1..26 : Upper[i] = c]
                ELSE c

LowerStr(s) == [i \in 1..Len(s) |-> LowerChar(s[i])]

\* s contains sub as a contiguous substring
Contains(s, sub) ==
  \E i \in 1..(Len(s) - Len(sub) + 1) : SubSeq(s, i, i + Len(sub) - 1) = sub

\* re.search("master|segment", s, flags=re.IGNORECASE) is not None
ReSearchMasterSegment(s) ==
  \/ Contains(LowerStr(s), <<"m","a","s","t","e","r">>)
  \/ Contains(LowerStr(s), <<"s","e","g","m","e","n","t">>)

RECURSIVE ReplaceSlash(_)
\* s.replace("/", "#slash#")
ReplaceSlash(s) ==
  IF s = <<>> THEN <<>>
  ELSE (IF Head(s) = "/" THEN <<"#","s","l","a","s","h","#">> ELSE <<Head(s)>>)
       \o ReplaceSlash(Tail(s))

\* f"pc_{unique_id}"
PcPrefixed(unique_id) == <<"p","c","_">> \o Str(unique_id)

RECURSIVE SetToSeq(_)
\* a list holding the elements of a finite set
SetToSeq(S) ==
  IF S = {} THEN <<>>
  ELSE LET x == CHOOSE x \in S : TRUE IN <<x>> \o SetToSeq(S \ {x})

\* x in list
InList(x, list) == \E i \in 1..Len(list) : list[i] = x

(***************************************************************************)
(* Imported names.                                                         *)
(***************************************************************************)
DOMAIN_POWERCALC == "powercalc"
SENSOR_DOMAIN == "sensor"
LIGHT_DOMAIN == "light"
SOURCE_USER == "user"
SOURCE_INTEGRATION_DISCOVERY == "integration_discovery"
CONF_ENTITY_ID == "entity_id"
CONF_PLATFORM == "platform"
CATEGORY_CONFIG == "config"
CATEGORY_DIAGNOSTIC == "diagnostic"
CATEGORY_NONE == "<None>"
STRATEGY_WLED == "wled"
DISCOVERY_TYPE_LIBRARY == "library"

S_WLED == <<"W","L","E","D">>
S_Ikea == <<"I","k","e","a">>
S_IKEA == <<"I","K","E","A">>
S_Signify == <<"S","i","g","n","i","f","y">>
S_Acme == <<"A","c","m","e">>
S_LCT001 == <<"L","C","T","0","0","1">>
S_TradfriBulb == <<"T","R","A","D","F","R","I","/","b","u","l","b">>
S_FOSS == <<"F","O","S","S">>
S_X1 == <<"X","1">>
S_Y2 == <<"Y","2">>

\* aliases.MANUFACTURER_WLED
MANUFACTURER_WLED == S_WLED

\* aliases.MANUFACTURER_ALIASES.get(manufacturer): the canonical name, or None
ManufacturerAlias(manufacturer) ==
  IF manufacturer = S_Ikea THEN S_IKEA ELSE None

\* power_profile.DEVICE_DOMAINS.values()
DEVICE_DOMAINS == {"camera", "cover", "light", "switch", "media_player", "vacuum"}

(***************************************************************************)
(* Host collaborators: device registry, entity registry, profile library,  *)
(* declarative configuration, configuration entries.                       *)
(***************************************************************************)
Device(id, manufacturer, model) ==
  [id |-> id, manufacturer |-> manufacturer, model |-> model]

\* the device registry's content
DeviceRegistry ==
  { Device("dev_unknown", S_Acme, S_Y2),
    Device("dev_broken", S_Acme, S_X1),
    Device("dev_hue", S_Signify, S_LCT001),
    Device("dev_wled", S_WLED, S_FOSS),
    Device("dev_ikea", S_Ikea, S_TradfriBulb),
    Device("dev_nomfr", None, S_LCT001),
    Device("dev_nomodel", S_Signify, None),
    Device("dev_emptymodel", S_Signify, <<>>) }

\* what device_registry.async_get returns for an unknown id
NoDevice == Device(NoneId, None, None)

\* device_registry.async_get(device_id), for a device registry holding devices
AsyncGetDeviceIn(devices, device_id) ==
  IF \E d \in devices : d.id = device_id
  THEN CHOOSE d \in devices : d.id = device_id
  ELSE NoDevice

\* device_registry.async_get(device_id)
AsyncGetDevice(device_id) == AsyncGetDeviceIn(DeviceRegistry, device_id)

RegistryEntry(entity_id, unique_id, domain, disabled, entity_category, device_id, original_name) ==
  [entity_id |-> entity_id, unique_id |-> unique_id, domain |-> domain,
   disabled |-> disabled, entity_category |-> entity_category,
   device_id |-> device_id, original_name |-> original_name]

N_Hue == <<"H","u","e">>
N_LivingRoomStrip == <<"L","i","v","i","n","g"," ","R","o","o","m"," ","S","t","r","i","p">>
N_LightStripSegment1 == <<"L","i","g","h","t"," ","S","t","r","i","p"," ","S","e","g","m","e","n","t"," ","1">>
N_WledMaster == <<"W","L","E","D"," ","M","a","s","t","e","r">>

\* the registry entries the entity registry may hold, in registry order
RegistryCatalogue ==
  << RegistryEntry("light.unknown", <<"u","0">>, "light", FALSE, CATEGORY_NONE, "dev_unknown", N_Hue),
     RegistryEntry("light.broken", <<"u","1">>, "light", FALSE, CATEGORY_NONE, "dev_broken", N_Hue),
     RegistryEntry("light.hue", <<"u","2">>, "light", FALSE, CATEGORY_NONE, "dev_hue", N_Hue),
     RegistryEntry("light.strip", <<"u","3">>, "light", FALSE, CATEGORY_NONE, "dev_wled", N_LivingRoomStrip),
     RegistryEntry("light.segment", <<"u","4">>, "light", FALSE, CATEGORY_NONE, "dev_wled", N_LightStripSegment1),
     RegistryEntry("light.tradfri", <<"u","5">>, "light", FALSE, CATEGORY_NONE, "dev_ikea", None),
     RegistryEntry("switch.plug", <<"u","6">>, "switch", FALSE, CATEGORY_NONE, "dev_ikea", N_Hue),
     RegistryEntry("switch.wled", <<"u","7">>, "switch", FALSE, CATEGORY_NONE, "dev_wled", N_LivingRoomStrip),
     RegistryEntry("light.master", <<"u","8">>, "light", FALSE, CATEGORY_NONE, "dev_wled", N_WledMaster),
     RegistryEntry("light.disabled", <<"u","9">>, "light", TRUE, CATEGORY_NONE, "dev_hue", N_Hue),
     RegistryEntry("switch.cfg", <<"u","a">>, "switch", FALSE, CATEGORY_CONFIG, "dev_hue", N_Hue),
     RegistryEntry("light.diag", <<"u","b">>, "light", FALSE, CATEGORY_DIAGNOSTIC, "dev_hue", N_Hue),
     RegistryEntry("automation.x", <<"u","c">>, "automation", FALSE, CATEGORY_NONE, "dev_hue", N_Hue),
     RegistryEntry("light.nodevice", <<"u","d">>, "light", FALSE, CATEGORY_NONE, NoneId, N_Hue),
     RegistryEntry("light.orphan", <<"u","e">>, "light", FALSE, CATEGORY_NONE, "dev_gone", N_Hue),
     RegistryEntry("light.nomfr", <<"u","f">>, "light", FALSE, CATEGORY_NONE, "dev_nomfr", N_Hue),
     RegistryEntry("light.nomodel", <<"u","g">>, "light", FALSE, CATEGORY_NONE, "dev_nomodel", N_Hue),
     RegistryEntry("light.emptymodel", <<"u","h">>, "light", FALSE, CATEGORY_NONE, "dev_emptymodel", N_Hue) >>

\* the entity ids of the catalogue, in registry order
CatalogueIds == [i \in 1..Len(RegistryCatalogue) |-> RegistryCatalogue[i].entity_id]

\* entity_registry.entities[entity_id]
RegistryEntryOf(entity_id) ==
  RegistryCatalogue[CHOOSE i \in 1..Len(RegistryCatalogue) :
                      RegistryCatalogue[i].entity_id = entity_id]

\* the entity registries of at most MaxRegistry entries, each given by the ids
\* of its entries in order: the runs of the catalogue
Registries ==
  { SubSeq(CatalogueIds, w[1], w[1] + w[2] - 1) :
      w \in { v \in (1..Len(CatalogueIds)) \X (1..MaxRegistry) :
                v[1] + v[2] - 1 <= Len(CatalogueIds) } }

PowerProfile(manufacturer, model, domains, is_additional_configuration_required) ==
  [manufacturer |-> manufacturer, model |-> model, domains |-> domains,
   is_additional_configuration_required |-> is_additional_configuration_required]

\* power_profile=None
NoProfile == PowerProfile(None, None, {}, FALSE)

\* ModelInfo(manufacturer, model)
ModelInfo(manufacturer, model) == [manufacturer |-> manufacturer, model |-> model]

\* autodiscover_model returned None
NoModelInfo == ModelInfo(None, None)

\* the outcome of one call of get_power_profile
Outcome(kind, profile) == [kind |-> kind, profile |-> profile]

\* get_power_profile(hass, {}, model_info=model_info) over the library's content:
\* a profile, the ModelNotSupported signal, or another error raised by the lookup
GetPowerProfile(model_info) ==
  CASE model_info = ModelInfo(S_Signify, S_LCT001) ->
         Outcome("profile", PowerProfile(S_Signify, S_LCT001, {"light"}, FALSE))
    [] model_info = ModelInfo(S_IKEA, ReplaceSlash(S_TradfriBulb)) ->
         Outcome("profile", PowerProfile(S_IKEA, ReplaceSlash(S_TradfriBulb), {"light"}, TRUE))
    [] model_info = ModelInfo(S_WLED, S_FOSS) ->
         Outcome("profile", PowerProfile(S_WLED, S_FOSS, {"light"}, FALSE))
    [] model_info = ModelInfo(S_Acme, S_X1) ->
         Outcome("error", NoProfile)
    [] OTHER ->
         Outcome("ModelNotSupported", NoProfile)

\* SourceEntity
SourceEntity(entity_id, unique_id, domain) ==
  [entity_id |-> entity_id, unique_id |-> unique_id, domain |-> domain]

NoSourceEntity == SourceEntity(NoneId, None, NoneId)

\* create_source_entity(entity_entry.entity_id, hass): the entry's wrapper
CreateSourceEntity(entity_entry) ==
  SourceEntity(entity_entry.entity_id, entity_entry.unique_id, entity_entry.domain)

\* power_profile.is_entity_domain_supported(source_entity)
IsEntityDomainSupported(power_profile, source_entity) ==
  source_entity.domain \in power_profile.domains

(***************************************************************************)
(* The declarative configuration: a tree of mappings, sequences, scalars.  *)
(***************************************************************************)
Scalar(v) == [t |-> "scalar", v |-> v, items |-> <<>>]
List(items) == [t |-> "list", v |-> "", items |-> items]
\* a mapping: the sequence of its <<key, value>> pairs, in insertion order
Dict(items) == [t |-> "dict", v |-> "", items |-> items]
NoneNode == [t |-> "none", v |-> "", items |-> <<>>]

\* mapping.get(key): the value under key, or None
DictGet(d, key) ==
  IF \E i \in 1..Len(d.items) : d.items[i][1] = key
  THEN d.items[CHOOSE i \in 1..Len(d.items) : d.items[i][1] = key][2]
  ELSE NoneNode

\* key in mapping
DictHas(d, key) == \E i \in 1..Len(d.items) : d.items[i][1] = key

\* a configuration with no sensor platform
HaConfigEmpty == Dict(<< <<"homeassistant", Dict(<<>>)>> >>)

\* a configuration whose sensor platform has blocks of this integration and others
HaConfigYaml ==
  Dict(<<
    <<"sensor", List(<<
        Dict(<< <<"platform", Scalar("template")>>, <<"entity_id", Scalar("light.hue")>> >>),
        Scalar("!include"),
        Dict(<< <<"platform", Scalar("powercalc")>>,
                <<"entity_id", Scalar("light.kitchen")>>,
                <<"fixed", Dict(<< <<"power", Scalar("20")>> >>)>> >>),
        Dict(<< <<"platform", Scalar("powercalc")>>,
                <<"create_group", Scalar("all lights")>>,
                <<"entities", List(<<
                    Scalar("note"),
                    Dict(<< <<"entity_id", Scalar("light.tradfri")>> >>),
                    Dict(<< <<"power_sensor", Dict(<< <<"entity_id", Scalar("switch.plug")>> >>)>> >>)
                  >>)>> >>)
      >>)>> >>)

\* the configurations a DiscoveryManager may be constructed with, by name
HaConfigs == {"no sensor platform", "powercalc sensor blocks"}

\* the configuration tree of that name
HaConfigTree(name) ==
  IF name = "powercalc sensor blocks" THEN HaConfigYaml ELSE HaConfigEmpty

\* a configuration entry of this domain: unique id, source, data[CONF_ENTITY_ID]
ConfigEntry(unique_id, source, entity_id) ==
  [unique_id |-> unique_id, source |-> source, entity_id |-> entity_id]

\* the configuration entries the user and the flows may create
ConfigEntryCatalogue ==
  { ConfigEntry(<<"u","2">>, SOURCE_INTEGRATION_DISCOVERY, "light.hue"),
    ConfigEntry(PcPrefixed(<<"u","3">>), SOURCE_INTEGRATION_DISCOVERY, "light.strip"),
    ConfigEntry(<<"e","1">>, SOURCE_USER, "light.hue"),
    ConfigEntry(PcPrefixed(<<"u","2">>), SOURCE_USER, NoneId),
    ConfigEntry(<<"e","2">>, SOURCE_USER, "light.segment") }
(***************************************************************************)
(* Identity resolution.                                                    *)
(***************************************************************************)
\* has_manufacturer_and_model_information(hass, entity_entry), for a device
\* registry holding devices
HasManufacturerAndModelInformationIn(devices, entity_entry) ==
  LET device_entry == AsyncGetDeviceIn(devices, entity_entry.device_id) IN
  IF device_entry = NoDevice THEN FALSE
  ELSE IF Len(Str(device_entry.manufacturer)) = 0 \/ Len(Str(device_entry.model)) = 0
       THEN FALSE
       ELSE TRUE

\* entity_entry is None
NoRegistryEntry == RegistryEntry(NoneId, None, NoneId, FALSE, NoneId, NoneId, None)

\* AutodiscoverModelIn without the alias lookup of lines 58-59
AutodiscoverModelInNoAlias(devices, entity_entry) ==
  IF entity_entry = NoRegistryEntry THEN NoModelInfo
  ELSE IF ~HasManufacturerAndModelInformationIn(devices, entity_entry) THEN NoModelInfo
  ELSE LET device_entry == AsyncGetDeviceIn(devices, entity_entry.device_id)
       IN ModelInfo(device_entry.manufacturer, ReplaceSlash(Str(device_entry.model)))

\* autodiscover_model(hass, entity_entry), for a device registry holding
\* devices: the ModelInfo, or NoModelInfo for None
AutodiscoverModelIn(devices, entity_entry) ==
  IF entity_entry = NoRegistryEntry THEN NoModelInfo
  ELSE IF ~HasManufacturerAndModelInformationIn(devices, entity_entry) THEN NoModelInfo
  ELSE LET device_entry == AsyncGetDeviceIn(devices, entity_entry.device_id)
           manufacturer == IF Truthy(ManufacturerAlias(device_entry.manufacturer))
                           THEN ManufacturerAlias(device_entry.manufacturer)
                           ELSE device_entry.manufacturer
           model_id == ReplaceSlash(Str(device_entry.model))
       IN ModelInfo(manufacturer, model_id)

\* has_manufacturer_and_model_information(hass, entity_entry)
HasManufacturerAndModelInformation(entity_entry) ==
  HasManufacturerAndModelInformationIn(DeviceRegistry, entity_entry)

\* autodiscover_model(hass, entity_entry): the ModelInfo, or NoModelInfo for None
AutodiscoverModel(entity_entry) == AutodiscoverModelIn(DeviceRegistry, entity_entry)

\* line 114: not model_info or not model_info.manufacturer or not model_info.model
NoUsableModelInfo(model_info) ==
  \/ model_info = NoModelInfo
  \/ ~Truthy(model_info.manufacturer)
  \/ ~Truthy(model_info.model)

\* IsWledLight with the "not" of line 124 left out
IsWledLightMissingNot(model_info, entity_entry) ==
  /\ model_info.manufacturer = MANUFACTURER_WLED
  /\ entity_entry.domain = LIGHT_DOMAIN
  /\ ReSearchMasterSegment(Str(entity_entry.original_name))

\* lines 121-129: the WLED rule of start_discovery
IsWledLight(model_info, entity_entry) ==
  /\ model_info.manufacturer = MANUFACTURER_WLED
  /\ entity_entry.domain = LIGHT_DOMAIN
  /\ ~ReSearchMasterSegment(Str(entity_entry.original_name))

(***************************************************************************)
(* The manually configured entities.                                       *)
(***************************************************************************)
RECURSIVE FindEntityIdsInYamlConfig(_), FindInItems(_), FindInList(_)
\* lines 293-297: the mappings among the items of a list value
FindInList(items) ==
  IF items = <<>> THEN <<>>
  ELSE (IF Head(items).t = "dict" THEN FindEntityIdsInYamlConfig(Head(items)) ELSE <<>>)
       \o FindInList(Tail(items))

\* lines 283-297: the loop over search_dict.items()
FindInItems(pairs) ==
  IF pairs = <<>> THEN <<>>
  ELSE LET key == Head(pairs)[1]
           value == Head(pairs)[2]
       IN (IF key = "entity_id" THEN <<value>>
           ELSE IF value.t = "dict" THEN FindEntityIdsInYamlConfig(value)
           ELSE IF value.t = "list" THEN FindInList(value.items)
           ELSE <<>>)
          \o FindInItems(Tail(pairs))

\* _find_entity_ids_in_yaml_config(search_dict)
FindEntityIdsInYamlConfig(search_dict) == FindInItems(search_dict.items)

RECURSIVE FindInPlatformEntries(_)
\* lines 256-262: the scan of every sensor item that is a block of this platform
FindInPlatformEntries(sensor_items) ==
  IF sensor_items = <<>> THEN <<>>
  ELSE LET item == Head(sensor_items) IN
       (IF item.t = "dict" /\ DictGet(item, CONF_PLATFORM) = Scalar(DOMAIN_POWERCALC)
        THEN FindEntityIdsInYamlConfig(item)
        ELSE <<>>)
       \o FindInPlatformEntries(Tail(sensor_items))

\* lines 265-271: entry.data.get(CONF_ENTITY_ID) of every user-initiated entry
UserEntryEntityIds(store) ==
  LET entries == SetToSeq({entry \in store : entry.source = SOURCE_USER}) IN
  [i \in 1..Len(entries) |->
     IF entries[i].entity_id = NoneId THEN NoneNode ELSE Scalar(entries[i].entity_id)]

\* _load_manually_configured_entities()
LoadManuallyConfiguredEntities(ha_config, store) ==
  (IF DictHas(ha_config, SENSOR_DOMAIN)
   THEN FindInPlatformEntries(DictGet(ha_config, SENSOR_DOMAIN).items)
   ELSE <<>>)
  \o UserEntryEntityIds(store)

\* self.manually_configured_entities: None, or a list
Cache(is_none, list) == [is_none |-> is_none, list |-> list]
NoneCache == Cache(TRUE, <<>>)

\* line 242: not self.manually_configured_entities
CacheIsFalsy(cache) == cache.is_none \/ cache.list = <<>>

\* _is_user_configured(entity_id): the answer, the cache it leaves, and
\* whether it ran _load_manually_configured_entities
IsUserConfigured(cache, ha_config, store, entity_id) ==
  LET loaded == CacheIsFalsy(cache)
      after == IF loaded
               THEN Cache(FALSE, LoadManuallyConfiguredEntities(ha_config, store))
               ELSE cache
  IN [result |-> InList(Scalar(entity_id), after.list), cache |-> after, loaded |-> loaded]

\* should_process_entity(entity_entry), with the cache it leaves
ShouldProcessEntity(cache, ha_config, store, entity_entry) ==
  IF entity_entry.disabled
  THEN [result |-> FALSE, cache |-> cache, loaded |-> FALSE, checked |-> FALSE]
  ELSE IF entity_entry.domain \notin DEVICE_DOMAINS
  THEN [result |-> FALSE, cache |-> cache, loaded |-> FALSE, checked |-> FALSE]
  ELSE IF entity_entry.entity_category \in {CATEGORY_CONFIG, CATEGORY_DIAGNOSTIC}
  THEN [result |-> FALSE, cache |-> cache, loaded |-> FALSE, checked |-> FALSE]
  ELSE LET has_user_config == IsUserConfigured(cache, ha_config, store, entity_entry.entity_id)
       IN [result |-> ~has_user_config.result, cache |-> has_user_config.cache,
           loaded |-> has_user_config.loaded, checked |-> TRUE]

(***************************************************************************)
(* Dispatch.                                                               *)
(***************************************************************************)
\* ExistingEntries comparing with source_entity.unique_id alone
ExistingEntriesPlainOnly(store, source_entity) ==
  { entry \in store : entry.unique_id = source_entity.unique_id }

\* ExistingEntries comparing with the pc_ variant alone
ExistingEntriesPrefixedOnly(store, source_entity) ==
  { entry \in store : entry.unique_id = PcPrefixed(source_entity.unique_id) }

\* lines 191-196: the entries whose unique id is the entity's or its pc_ variant
ExistingEntries(store, source_entity) ==
  { entry \in store :
      entry.unique_id \in {source_entity.unique_id, PcPrefixed(source_entity.unique_id)} }

\* lines 203-214: discovery_data
DiscoveryData(source_entity, power_profile, extra_discovery_data) ==
  LET base == ("entity_id" :> source_entity.entity_id) @@
              ("source_entity" :> source_entity)
      with_profile ==
        IF power_profile # NoProfile
        THEN ("power_profile" :> power_profile) @@
             ("manufacturer" :> power_profile.manufacturer) @@
             ("model" :> power_profile.model) @@ base
        ELSE base
  IN extra_discovery_data @@ with_profile

\* {}
EmptyDict == [k \in {} |-> NoneId]

\* lines 133-137: the extra discovery data of the WLED rule
WledDiscoveryData(model_info) ==
  ("mode" :> STRATEGY_WLED) @@
  ("manufacturer" :> model_info.manufacturer) @@
  ("model" :> model_info.model)

\* lines 225-230: discovery_info of the legacy routine
DiscoveryInfo(source_entity, power_profile) ==
  ("entity_id" :> source_entity.entity_id) @@
  ("source_entity" :> source_entity) @@
  ("power_profile" :> power_profile) @@
  ("discovery_type" :> DISCOVERY_TYPE_LIBRARY)

\* LegacyApplies without the test of is_additional_configuration_required
LegacyAppliesWithoutFlag(power_profile) == power_profile # NoProfile

\* line 224: the legacy routine runs
LegacyApplies(power_profile) ==
  power_profile # NoProfile /\ ~power_profile.is_additional_configuration_required

\* InitEntityDiscovery without the test of lines 190-200
InitEntityDiscoveryWithoutDedup(store, source_entity, power_profile, extra_discovery_data) ==
  [flows |-> << [context_source |-> SOURCE_INTEGRATION_DISCOVERY,
                 data |-> DiscoveryData(source_entity, power_profile,
                                        extra_discovery_data)] >>,
   tasks |-> IF LegacyApplies(power_profile)
             THEN << DiscoveryInfo(source_entity, power_profile) >>
             ELSE <<>>]

\* _init_entity_discovery(source_entity, power_profile, extra_discovery_data):
\* the flows it creates and the platform-load tasks it schedules
InitEntityDiscovery(store, source_entity, power_profile, extra_discovery_data) ==
  IF ExistingEntries(store, source_entity) # {}
  THEN [flows |-> <<>>, tasks |-> <<>>]
  ELSE [flows |-> << [context_source |-> SOURCE_INTEGRATION_DISCOVERY,
                      data |-> DiscoveryData(source_entity, power_profile,
                                             extra_discovery_data)] >>,
        tasks |-> IF LegacyApplies(power_profile)
                  THEN << DiscoveryInfo(source_entity, power_profile) >>
                  ELSE <<>>]
(***************************************************************************)
(* State.                                                                  *)
(***************************************************************************)
VARIABLES
  registry,                      \* entity_registry.entities, the ids in order
  ha_config,                     \* self.ha_config, by name
  store,                         \* hass.config_entries.async_entries(DOMAIN)
  manually_configured_entities,  \* self.manually_configured_entities
  pc,                            \* where start_discovery stands
  entities,                      \* the list() snapshot of line 109, by id
  idx,                           \* position of entity_entry in the snapshot
  model_info,                    \* local of start_discovery
  source_entity,                 \* local of start_discovery
  power_profile,                 \* argument of _init_entity_discovery
  extra_discovery_data,          \* argument of _init_entity_discovery
  run,                           \* number of start_discovery calls so far
  flows,                         \* discovery flows created by the current run
  tasks,                         \* legacy platform-load tasks of the current run
  lookups,                       \* entity ids get_power_profile was awaited for
  loads,                         \* _load_manually_configured_entities calls of the run
  checks,                        \* _is_user_configured calls of the run
  prevFlows,                     \* flows of the run before, kept if nothing changed since
  prevTasks,                     \* tasks of the run before, kept if nothing changed since
  dirty,                         \* a collaborator changed since the current run began
  cleanRun,                      \* nothing changed between the last two run starts
  visited,                       \* entity ids the loop of line 109 has reached in the run
  call,                          \* a helper called on its own: its name and argument
  ret                            \* what that call returned

vars == <<registry, ha_config, store, manually_configured_entities, pc, entities,
          idx, model_info, source_entity, power_profile, extra_discovery_data,
          run, flows, tasks, lookups, loads, checks, prevFlows, prevTasks, dirty,
          cleanRun, visited, call, ret>>

hostVars == <<registry, ha_config, store>>
localVars == <<model_info, source_entity, power_profile, extra_discovery_data>>
outVars == <<flows, tasks>>
prevVars == <<prevFlows, prevTasks, dirty, cleanRun>>
helperVars == <<call, ret>>

\* no helper is called on its own
NoCall == [fn |-> "none", arg |-> <<>>]
NoRet == [returned |-> FALSE, value |-> <<>>]

\* the entry the loop of line 109 is at
entity_entry == RegistryEntryOf(entities[idx])

\* start_discovery is not running
Resting == pc \in {"idle", "done", "failed"}

\* start_discovery is suspended at an await
Suspended == pc \in {"resolve", "create", "lookup"}

\* DiscoveryManager.__init__, before the first start_discovery
Init ==
  /\ registry \in Registries
  /\ ha_config \in HaConfigs
  /\ store = {}
  /\ manually_configured_entities = NoneCache
  /\ pc = "idle"
  /\ entities = <<>>
  /\ idx = 0
  /\ model_info = NoModelInfo
  /\ source_entity = NoSourceEntity
  /\ power_profile = NoProfile
  /\ extra_discovery_data = EmptyDict
  /\ run = 0
  /\ flows = <<>>
  /\ tasks = <<>>
  /\ lookups = <<>>
  /\ loads = 0
  /\ checks = 0
  /\ prevFlows = <<>>
  /\ prevTasks = <<>>
  /\ dirty = FALSE
  /\ cleanRun = FALSE
  /\ visited = <<>>
  /\ call = NoCall
  /\ ret = NoRet

\* the locals of one loop iteration, forgotten at its end
ResetLocals ==
  /\ model_info' = NoModelInfo
  /\ source_entity' = NoSourceEntity
  /\ power_profile' = NoProfile
  /\ extra_discovery_data' = EmptyDict

\* continue / end of the loop body: the next entry of the snapshot, or line 157
Continue ==
  /\ IF idx < Len(entities)
     THEN pc' = "check" /\ idx' = idx + 1
     ELSE pc' = "done" /\ idx' = idx
  /\ ResetLocals

(***************************************************************************)
(* start_discovery, one action per stretch between two awaits.             *)
(***************************************************************************)
\* lines 104-109: a call of start_discovery takes the snapshot
StartDiscovery ==
  /\ Resting
  /\ run < MaxRuns
  /\ run' = run + 1
  /\ entities' = registry
  /\ IF Len(registry) > 0
     THEN pc' = "check" /\ idx' = 1
     ELSE pc' = "done" /\ idx' = 0
  /\ ResetLocals
  /\ flows' = <<>>
  /\ tasks' = <<>>
  /\ lookups' = <<>>
  /\ loads' = 0
  /\ checks' = 0
  /\ cleanRun' = (run >= 1 /\ ~dirty)
  /\ prevFlows' = IF run >= 1 /\ ~dirty THEN flows ELSE <<>>
  /\ prevTasks' = IF run >= 1 /\ ~dirty THEN tasks ELSE <<>>
  /\ dirty' = FALSE
  /\ visited' = <<>>
  /\ UNCHANGED <<hostVars, manually_configured_entities, helperVars>>

\* lines 110-111: should_process_entity(entity_entry)
ShouldProcess ==
  /\ pc = "check"
  /\ LET r == ShouldProcessEntity(manually_configured_entities,
                                  HaConfigTree(ha_config), store, entity_entry)
     IN /\ manually_configured_entities' = r.cache
        /\ loads' = IF r.loaded THEN loads + 1 ELSE loads
        /\ checks' = IF r.checked THEN checks + 1 ELSE checks
        /\ IF r.result
           THEN pc' = "resolve" /\ UNCHANGED <<idx, localVars>>
           ELSE Continue
  /\ visited' = Append(visited, entity_entry.entity_id)
  /\ UNCHANGED <<hostVars, entities, run, outVars, lookups, prevVars, helperVars>>

\* lines 113-115: autodiscover_model returns
Resolve ==
  /\ pc = "resolve"
  /\ LET m == AutodiscoverModel(entity_entry) IN
     IF NoUsableModelInfo(m)
     THEN Continue
     ELSE /\ model_info' = m
          /\ pc' = "create"
          /\ UNCHANGED <<idx, source_entity, power_profile, extra_discovery_data>>
  /\ UNCHANGED <<hostVars, manually_configured_entities, entities, run, outVars,
                 lookups, loads, checks, prevVars, visited, helperVars>>

\* lines 117-119: create_source_entity returns
CreateSource ==
  /\ pc = "create"
  /\ source_entity' = CreateSourceEntity(entity_entry)
  /\ pc' = "match"
  /\ UNCHANGED <<hostVars, manually_configured_entities, entities, idx, model_info,
                 power_profile, extra_discovery_data, run, outVars, lookups, loads,
                 checks, prevVars, visited, helperVars>>

\* lines 121-142: the WLED rule; its call of _init_entity_discovery, or the
\* call of get_power_profile
Match ==
  /\ pc = "match"
  /\ IF IsWledLight(model_info, entity_entry)
     THEN /\ power_profile' = NoProfile
          /\ extra_discovery_data' = WledDiscoveryData(model_info)
          /\ pc' = "init"
          /\ UNCHANGED lookups
     ELSE /\ pc' = "lookup"
          /\ lookups' = Append(lookups, entity_entry.entity_id)
          /\ UNCHANGED <<power_profile, extra_discovery_data>>
  /\ UNCHANGED <<hostVars, manually_configured_entities, entities, idx, model_info,
                 source_entity, run, outVars, loads, checks, prevVars, visited,
                 helperVars>>

\* Lookup without the domain test of line 152
LookupWithoutDomainCheck ==
  /\ pc = "lookup"
  /\ LET outcome == GetPowerProfile(model_info) IN
     CASE outcome.kind = "ModelNotSupported" -> Continue
       [] outcome.kind = "error" ->
            /\ pc' = "failed"
            /\ UNCHANGED idx
            /\ ResetLocals
       [] outcome.kind = "profile" ->
            /\ power_profile' = outcome.profile
            /\ extra_discovery_data' = EmptyDict
            /\ pc' = "init"
            /\ UNCHANGED <<idx, model_info, source_entity>>
  /\ UNCHANGED <<hostVars, manually_configured_entities, entities, run, outVars,
                 lookups, loads, checks, prevVars, visited, helperVars>>

\* lines 142-155: get_power_profile returns or raises
Lookup ==
  /\ pc = "lookup"
  /\ LET outcome == GetPowerProfile(model_info) IN
     CASE outcome.kind = "ModelNotSupported" -> Continue
       [] outcome.kind = "error" ->
            /\ pc' = "failed"
            /\ UNCHANGED idx
            /\ ResetLocals
       [] outcome.kind = "profile" ->
            IF ~IsEntityDomainSupported(outcome.profile, source_entity)
            THEN Continue
            ELSE /\ power_profile' = outcome.profile
                 /\ extra_discovery_data' = EmptyDict
                 /\ pc' = "init"
                 /\ UNCHANGED <<idx, model_info, source_entity>>
  /\ UNCHANGED <<hostVars, manually_configured_entities, entities, run, outVars,
                 lookups, loads, checks, prevVars, visited, helperVars>>

\* InitDiscovery writing the configuration entry itself, as if the flow it
\* dispatches had already completed
InitDiscoveryStoringEntry ==
  /\ pc = "init"
  /\ LET r == InitEntityDiscovery(store, source_entity, power_profile,
                                  extra_discovery_data)
     IN /\ flows' = flows \o r.flows
        /\ tasks' = tasks \o r.tasks
        /\ store' = IF r.flows = <<>> THEN store
                    ELSE store \cup {ConfigEntry(source_entity.unique_id,
                                                 SOURCE_INTEGRATION_DISCOVERY,
                                                 source_entity.entity_id)}
  /\ Continue
  /\ UNCHANGED <<registry, ha_config, manually_configured_entities, entities, run,
                 lookups, loads, checks, prevVars, visited, helperVars>>

\* lines 130-139 and 155: _init_entity_discovery runs, then the loop goes on
InitDiscovery ==
  /\ pc = "init"
  /\ LET r == InitEntityDiscovery(store, source_entity, power_profile,
                                  extra_discovery_data)
     IN /\ flows' = flows \o r.flows
        /\ tasks' = tasks \o r.tasks
  /\ Continue
  /\ UNCHANGED <<hostVars, manually_configured_entities, entities, run, lookups,
                 loads, checks, prevVars, visited, helperVars>>

Sweep ==
  \/ StartDiscovery
  \/ ShouldProcess
  \/ Resolve
  \/ CreateSource
  \/ Match
  \/ Lookup
  \/ InitDiscovery

(***************************************************************************)
(* The host: the user and the flows create and remove entries.             *)
(***************************************************************************)
\* a configuration entry of this domain is created
AddConfigEntry(entry) ==
  /\ entry \notin store
  /\ Cardinality(store) < MaxStore
  /\ store' = store \cup {entry}
  /\ dirty' = TRUE
  /\ UNCHANGED <<registry, ha_config, manually_configured_entities, pc, entities, idx,
                 localVars, run, outVars, lookups, loads, checks, prevFlows,
                 prevTasks, cleanRun, visited, helperVars>>

\* a configuration entry of this domain is removed
RemoveConfigEntry(entry) ==
  /\ entry \in store
  /\ store' = store \ {entry}
  /\ dirty' = TRUE
  /\ UNCHANGED <<registry, ha_config, manually_configured_entities, pc, entities, idx,
                 localVars, run, outVars, lookups, loads, checks, prevFlows,
                 prevTasks, cleanRun, visited, helperVars>>

\* the store changes while no sweep runs
HostBetweenRuns ==
  /\ Resting
  /\ run < MaxRuns
  /\ \E entry \in ConfigEntryCatalogue :
       AddConfigEntry(entry) \/ RemoveConfigEntry(entry)

\* the store changes while the sweep is suspended at an await
HostDuringRun ==
  /\ Suspended
  /\ \E entry \in ConfigEntryCatalogue :
       AddConfigEntry(entry) \/ RemoveConfigEntry(entry)

Next == Sweep \/ HostBetweenRuns

\* sweeps with the store changing only between them
Spec == Init /\ [][Next]_vars

NextConc == Sweep \/ HostBetweenRuns \/ HostDuringRun

\* sweeps with the store changing between them and at their awaits
SpecConc == Init /\ [][NextConc]_vars

(***************************************************************************)
(* Vocabulary of the properties.                                           *)
(***************************************************************************)
\* the discovery flows of the current run that are about entity_id
FlowsFor(entity_id) == SelectSeq(flows, LAMBDA f : f.data["entity_id"] = entity_id)

\* the legacy platform-load tasks of the current run that are about entity_id
TasksFor(entity_id) == SelectSeq(tasks, LAMBDA t : t["entity_id"] = entity_id)

\* a configuration entry is stored under the unique id or under "pc_" + unique id
HasEntryUnderEitherKey(unique_id) ==
  \E entry \in store :
    \/ entry.unique_id = unique_id
    \/ entry.unique_id = <<"p","c","_">> \o unique_id

\* two runs in succession with nothing changed since the first began, the
\* second run complete
SecondRunOfTwoDone == pc = "done" /\ cleanRun /\ ~dirty

(***************************************************************************)
(* C1: idempotence of the sweep.                                           *)
(***************************************************************************)
\* C1 as claimed: the second of two runs in succession, with nothing changed
\* in between, dispatches no discovery flow and no legacy payload.
C1_SecondRunDispatchesNothing ==
  SecondRunOfTwoDone => (flows = <<>> /\ tasks = <<>>)

\* C1 as amended: the second of two runs in succession, with nothing changed
\* in between, dispatches exactly the flows and legacy payloads of the first
\* run, none of them for an entity that has a configuration entry under its
\* unique id or the pc_-prefixed id.
C1_SecondRunRepeatsFirst ==
  SecondRunOfTwoDone =>
    /\ flows = prevFlows
    /\ tasks = prevTasks
    /\ \A i \in 1..Len(flows) :
         ~HasEntryUnderEitherKey(flows[i].data["source_entity"].unique_id)

\* the second run has dispatched a flow again
C1_Witness == SecondRunOfTwoDone /\ flows # <<>> /\ tasks # <<>>

(***************************************************************************)
(* C2: dedup against existing entries.                                     *)
(***************************************************************************)
\* C2: whenever _init_entity_discovery runs for a source entity while the
\* store holds an entry whose unique id is the entity's unique id or "pc_"
\* followed by it, no flow is created and no legacy task is scheduled.
C2_DedupAgainstExistingEntries ==
  [][ (pc = "init" /\ HasEntryUnderEitherKey(source_entity.unique_id))
        => (flows' = flows /\ tasks' = tasks) ]_vars

\* _init_entity_discovery is about to run on the library path for an entity
\* with a user-initiated entry under the pc_ variant of its unique id
C2_Witness ==
  /\ pc = "init"
  /\ power_profile # NoProfile
  /\ \E entry \in store :
       /\ entry.unique_id = <<"p","c","_">> \o source_entity.unique_id
       /\ entry.source = SOURCE_USER

(***************************************************************************)
(* C3: a manually configured entity is never re-offered.                   *)
(***************************************************************************)
\* the entity ids configured by hand right now: those of the declarative
\* powercalc sensor blocks and those of the user-initiated entries
ManuallyConfiguredNow ==
  LoadManuallyConfiguredEntities(HaConfigTree(ha_config), store)

\* C3: no run creates a flow for an entity that was manually configured
\* (declarative block or user-initiated entry) when the run started, also
\* when it became so after an earlier run had built the index.
C3_NeverReoffersManuallyConfigured ==
  ~dirty =>
    \A i \in 1..Len(flows) :
      ~InList(Scalar(flows[i].data["entity_id"]), ManuallyConfiguredNow)

(***************************************************************************)
(* C4: the index is built exactly once per sweep.                          *)
(***************************************************************************)
\* C4: in a run in which an entry has reached the manual-configuration
\* check, _load_manually_configured_entities has run exactly once.
C4_IndexBuiltOncePerSweep ==
  checks >= 1 => loads = 1

(***************************************************************************)
(* C5: the eligibility filter.                                             *)
(***************************************************************************)
\* C5: should_process_entity answers true exactly when the entry is enabled,
\* of a covered domain, neither config nor diagnostic, and not manually
\* configured (declarative blocks and user-initiated entries).
C5_EligibilityFilter ==
  [][ pc = "check" =>
        ( (pc' = "resolve") <=>
            /\ ~entity_entry.disabled
            /\ entity_entry.domain \in DEVICE_DOMAINS
            /\ entity_entry.entity_category \notin {CATEGORY_CONFIG, CATEGORY_DIAGNOSTIC}
            /\ ~InList(Scalar(entity_entry.entity_id), ManuallyConfiguredNow) ) ]_vars

(***************************************************************************)
(* C6: exactly one discovery flow per newly found entity.                  *)
(***************************************************************************)
\* the index the eligibility checks of the run answer from
IndexInEffect ==
  IF CacheIsFalsy(manually_configured_entities)
  THEN ManuallyConfiguredNow
  ELSE manually_configured_entities.list

\* the entry is eligible, resolves to an identity with manufacturer and
\* model, matches (WLED rule, or a library profile that supports its domain)
\* and has no configuration entry under either unique key
NewlyFound(entry) ==
  LET identity == AutodiscoverModel(entry)
      outcome == GetPowerProfile(identity)
  IN /\ ~entry.disabled
     /\ entry.domain \in DEVICE_DOMAINS
     /\ entry.entity_category \notin {CATEGORY_CONFIG, CATEGORY_DIAGNOSTIC}
     /\ ~InList(Scalar(entry.entity_id), IndexInEffect)
     /\ Truthy(identity.manufacturer) /\ Truthy(identity.model)
     /\ \/ IsWledLight(identity, entry)
        \/ outcome.kind = "profile" /\ entry.domain \in outcome.profile.domains
     /\ ~HasEntryUnderEitherKey(entry.unique_id)

\* C6: when a run of start_discovery has ended, every entry of its snapshot
\* that is newly found has exactly one discovery flow and every other entry
\* has none.
C6_OneFlowPerNewlyFoundEntity ==
  (Resting /\ run >= 1 /\ ~dirty) =>
    \A i \in 1..Len(entities) :
      Len(FlowsFor(entities[i])) =
        IF NewlyFound(RegistryEntryOf(entities[i])) THEN 1 ELSE 0

(***************************************************************************)
(* C7: the legacy path is additive.                                        *)
(***************************************************************************)
\* the flow comes from a library match whose profile needs no more configuration
FromPlainLibraryMatch(flow) ==
  /\ "power_profile" \in DOMAIN flow.data
  /\ ~flow.data["power_profile"].is_additional_configuration_required

\* C7: an entity has a legacy platform-load task in a run exactly if it has a
\* discovery flow of that run from a library match whose profile needs no
\* additional configuration, and then it has one flow and one task, about
\* the same source entity and profile.
C7_LegacyPathAdditive ==
  \A i \in 1..Len(CatalogueIds) :
    LET f == FlowsFor(CatalogueIds[i])
        t == TasksFor(CatalogueIds[i])
    IN /\ Len(f) <= 1
       /\ Len(t) = IF \E k \in 1..Len(f) : FromPlainLibraryMatch(f[k]) THEN 1 ELSE 0
       /\ Len(t) = 1 =>
            /\ t[1]["power_profile"] = f[1].data["power_profile"]
            /\ t[1]["source_entity"] = f[1].data["source_entity"]

\* one run has dispatched a flow with its legacy task and a flow without one
C7_Witness == Len(flows) = 2 /\ Len(tasks) = 1

(***************************************************************************)
(* C8: the WLED rule.                                                      *)
(***************************************************************************)
\* the matching step stands at an entry the WLED rule takes
WledRuleApplies ==
  /\ pc = "match"
  /\ model_info.manufacturer = S_WLED
  /\ entity_entry.domain = "light"
  /\ ~Contains(LowerStr(Str(entity_entry.original_name)), <<"m","a","s","t","e","r">>)
  /\ ~Contains(LowerStr(Str(entity_entry.original_name)), <<"s","e","g","m","e","n","t">>)

\* C8: for an entry the WLED rule takes, the library is not queried and
\* _init_entity_discovery is called without a profile; when the dedup check
\* passes it creates one flow whose data has no power profile and carries the
\* WLED mode with the resolved manufacturer and model, and no legacy task.
C8_WledRule ==
  [][ /\ WledRuleApplies =>
           /\ pc' = "init"
           /\ power_profile' = NoProfile
           /\ lookups' = lookups
      /\ (pc = "init" /\ power_profile = NoProfile) =>
           /\ lookups' = lookups
           /\ tasks' = tasks
           /\ ~HasEntryUnderEitherKey(source_entity.unique_id) =>
                /\ Len(flows') = Len(flows) + 1
                /\ LET data == flows'[Len(flows')].data IN
                     /\ "power_profile" \notin DOMAIN data
                     /\ data["entity_id"] = entity_entry.entity_id
                     /\ data["mode"] = STRATEGY_WLED
                     /\ data["manufacturer"] = model_info.manufacturer
                     /\ data["model"] = model_info.model ]_vars

\* a run has ended with the one WLED flow and without a library query
C8_Witness ==
  /\ pc = "done"
  /\ lookups = <<>>
  /\ tasks = <<>>
  /\ Len(flows) = 1
  /\ "mode" \in DOMAIN flows[1].data
  /\ "power_profile" \notin DOMAIN flows[1].data

(***************************************************************************)
(* C9: WLED sub-entities.                                                  *)
(***************************************************************************)
\* a light of the WLED manufacturer whose name matches master or segment
IsWledSubEntity(entry) ==
  /\ AutodiscoverModel(entry).manufacturer = S_WLED
  /\ entry.domain = "light"
  /\ ReSearchMasterSegment(Str(entry.original_name))

\* C9: no discovery flow is created for a WLED master or segment light.
C9_WledSubEntitiesExcluded ==
  \A i \in 1..Len(flows) :
    ~IsWledSubEntity(RegistryEntryOf(flows[i].data["entity_id"]))

(***************************************************************************)
(* C10: per-entry failure isolation.                                       *)
(***************************************************************************)
\* C10: no error leaves start_discovery, and a run that has ended has
\* processed every entry of its snapshot.
C10_FailureIsolation ==
  /\ pc # "failed"
  /\ (Resting /\ run >= 1) => idx = Len(entities)

\* ---------------------------------------------------------------------------
\* _find_entity_ids_in_yaml_config called on its own, over bounded structures
\* ---------------------------------------------------------------------------

\* nesting depth of the structures handed to the scan
MaxDepth == 4

\* the values stored under the key entity_id, and a scalar that is no such value
EntityIdValues == {Scalar("light.a"), Scalar("light.b")}
OtherScalar == Scalar("x")

RECURSIVE YamlNodes(_), YamlDicts(_), YamlLists(_)
\* mappings nested at most depth deep: an entity_id key, a key holding any
\* nested node, or both in either order
YamlDicts(depth) ==
  IF depth = 0 THEN {}
  ELSE LET below == YamlNodes(depth - 1) IN
       {Dict(<< <<"entity_id", e>> >>) : e \in EntityIdValues}
       \cup {Dict(<< <<"entities", n>> >>) : n \in below}
       \cup {Dict(<< <<"entity_id", e>>, <<"entities", n>> >>) :
               e \in EntityIdValues, n \in below}
       \cup {Dict(<< <<"entities", n>>, <<"entity_id", e>> >>) :
               e \in EntityIdValues, n \in below}
\* sequences nested at most depth deep: one node, or a scalar and then a node
YamlLists(depth) ==
  IF depth = 0 THEN {}
  ELSE LET below == YamlNodes(depth - 1) IN
       {List(<<n>>) : n \in below} \cup {List(<<OtherScalar, n>>) : n \in below}
YamlNodes(depth) == {OtherScalar} \cup YamlDicts(depth) \cup YamlLists(depth)

\* the sweep's own state while a helper is called on its own
NoSweep ==
  /\ registry = <<>>
  /\ ha_config = "no sensor platform"
  /\ store = {}
  /\ manually_configured_entities = NoneCache
  /\ pc = "idle"
  /\ entities = <<>>
  /\ idx = 0
  /\ model_info = NoModelInfo
  /\ source_entity = NoSourceEntity
  /\ power_profile = NoProfile
  /\ extra_discovery_data = EmptyDict
  /\ run = MaxRuns
  /\ flows = <<>>
  /\ tasks = <<>>
  /\ lookups = <<>>
  /\ loads = 0
  /\ checks = 0
  /\ prevFlows = <<>>
  /\ prevTasks = <<>>
  /\ dirty = FALSE
  /\ cleanRun = FALSE
  /\ visited = <<>>

InitScan ==
  /\ NoSweep
  /\ call \in {[fn |-> "_find_entity_ids_in_yaml_config", arg |-> d] :
                 d \in YamlDicts(MaxDepth)}
  /\ ret = NoRet

\* found_entity_ids = self._find_entity_ids_in_yaml_config(search_dict, [])
FindEntityIds ==
  /\ call.fn = "_find_entity_ids_in_yaml_config"
  /\ ~ret.returned
  /\ ret' = [returned |-> TRUE, value |-> FindEntityIdsInYamlConfig(call.arg)]
  /\ UNCHANGED <<hostVars, manually_configured_entities, pc, entities, idx,
                 localVars, run, outVars, lookups, loads, checks, prevVars, visited,
                 call>>

NextScan == FindEntityIds
SpecScan == InitScan /\ [][NextScan]_vars

RECURSIVE EntityIdOccurrences(_), OccurrencesInPairs(_), OccurrencesInItems(_)
\* every value stored under a key entity_id at any depth of node, whatever the
\* nesting that leads to it
EntityIdOccurrences(node) ==
  IF node.t = "dict" THEN OccurrencesInPairs(node.items)
  ELSE IF node.t = "list" THEN OccurrencesInItems(node.items)
  ELSE <<>>
OccurrencesInPairs(pairs) ==
  IF pairs = <<>> THEN <<>>
  ELSE (IF Head(pairs)[1] = "entity_id" THEN <<Head(pairs)[2]>> ELSE <<>>)
       \o EntityIdOccurrences(Head(pairs)[2]) \o OccurrencesInPairs(Tail(pairs))
OccurrencesInItems(items) ==
  IF items = <<>> THEN <<>>
  ELSE EntityIdOccurrences(Head(items)) \o OccurrencesInItems(Tail(items))

\* s and t hold the same values the same number of times, in any order
SameValues(s, t) ==
  /\ Len(s) = Len(t)
  /\ \A v \in {s[i] : i \in 1..Len(s)} \cup {t[i] : i \in 1..Len(t)} :
       Cardinality({i \in 1..Len(s) : s[i] = v})
         = Cardinality({i \in 1..Len(t) : t[i] = v})

\* C11: for a structure of mappings, sequences and scalars nested to a bounded
\* depth, the scan returns exactly the values stored under the key entity_id,
\* one per occurrence of the key, wherever the key is nested: mapping in
\* mapping, mapping in sequence, or sequence in sequence.
C11_ScanFindsEveryOccurrence ==
  (call.fn = "_find_entity_ids_in_yaml_config" /\ ret.returned)
    => SameValues(ret.value, EntityIdOccurrences(call.arg))

\* ---------------------------------------------------------------------------
\* autodiscover_model called on its own, over bounded device records
\* ---------------------------------------------------------------------------

\* length of the model names drawn from the letters "/" and "a"
MaxModelLen == 3

RECURSIVE TextsUpTo(_)
\* every text of at most n letters "/" and "a"
TextsUpTo(n) ==
  IF n = 0 THEN {<<>>}
  ELSE TextsUpTo(n - 1)
       \cup {Append(t, ch) : t \in {u \in TextsUpTo(n - 1) : Len(u) = n - 1},
                             ch \in {"/", "a"}}

\* device_entry.manufacturer and device_entry.model: None, empty, or a text
Manufacturers == {None, <<>>, S_Ikea, S_IKEA, S_Signify, S_WLED, S_Acme}
Models == {None, S_LCT001, S_TradfriBulb} \cup TextsUpTo(MaxModelLen)

\* the entity whose device is looked up
EntityOfDevice == RegistryEntryOf("light.hue")

\* the arguments: no entity entry, an entity whose device is unknown to the
\* device registry, or an entity whose device has any manufacturer and model
IdentityArgs ==
  {[entity_entry |-> NoRegistryEntry, devices |-> {}],
   [entity_entry |-> EntityOfDevice, devices |-> {}]}
  \cup {[entity_entry |-> EntityOfDevice,
         devices |-> {Device(EntityOfDevice.device_id, manufacturer, model)}] :
          manufacturer \in Manufacturers, model \in Models}

InitIdentity ==
  /\ NoSweep
  /\ call \in {[fn |-> "autodiscover_model", arg |-> a] : a \in IdentityArgs}
  /\ ret = NoRet

\* model_info = await autodiscover_model(self.hass, entity_entry)
Autodiscover ==
  /\ call.fn = "autodiscover_model"
  /\ ~ret.returned
  /\ ret' = [returned |-> TRUE,
             value |-> AutodiscoverModelIn(call.arg.devices, call.arg.entity_entry)]
  /\ UNCHANGED <<hostVars, manually_configured_entities, pc, entities, idx,
                 localVars, run, outVars, lookups, loads, checks, prevVars, visited,
                 call>>

NextIdentity == Autodiscover
SpecIdentity == InitIdentity /\ [][NextIdentity]_vars

\* the device of the entity in the call, or NoDevice
DeviceOfCall == AsyncGetDeviceIn(call.arg.devices, call.arg.entity_entry.device_id)
AutodiscoverReturned == call.fn = "autodiscover_model" /\ ret.returned

\* the device of the call exists and has a manufacturer and a model, both
\* present and not empty
DeviceHasManufacturerAndModel ==
  /\ call.arg.entity_entry # NoRegistryEntry
  /\ DeviceOfCall # NoDevice
  /\ DeviceOfCall.manufacturer # None /\ DeviceOfCall.manufacturer # <<>>
  /\ DeviceOfCall.model # None /\ DeviceOfCall.model # <<>>

\* r is s with every "/" replaced by "#slash#", said letter by letter: the
\* letter s[i] lands six places further right for each "/" before it
IsSlashReplaced(s, r) ==
  LET before(i) == Cardinality({j \in 1..(i - 1) : s[j] = "/"})
      at(i) == i + 6 * before(i)
  IN /\ Len(r) = Len(s) + 6 * before(Len(s) + 1)
     /\ \A i \in 1..Len(s) :
          IF s[i] = "/"
          THEN SubSeq(r, at(i), at(i) + 6) = <<"#","s","l","a","s","h","#">>
          ELSE r[at(i)] = s[i]

\* C12: for a device that has a manufacturer and a model, autodiscover_model
\* returns the manufacturer's image in the alias table if it has one and the
\* manufacturer unchanged otherwise, and the model with every "/" replaced by
\* "#slash#", so that the returned model holds no "/".
C12_AliasAndSlashNormalisation ==
  (AutodiscoverReturned /\ DeviceHasManufacturerAndModel) =>
    /\ ret.value # NoModelInfo
    /\ ret.value.manufacturer =
         (IF ManufacturerAlias(DeviceOfCall.manufacturer) # None
          THEN ManufacturerAlias(DeviceOfCall.manufacturer)
          ELSE DeviceOfCall.manufacturer)
    /\ IsSlashReplaced(DeviceOfCall.model, ret.value.model)
    /\ \A i \in 1..Len(ret.value.model) : ret.value.model[i] # "/"

\* the call for the Ikea device with model TRADFRI/bulb has returned IKEA and
\* TRADFRI#slash#bulb
C12_Witness ==
  /\ AutodiscoverReturned
  /\ DeviceOfCall.manufacturer = S_Ikea
  /\ DeviceOfCall.model = S_TradfriBulb
  /\ ret.value = ModelInfo(S_IKEA,
       <<"T","R","A","D","F","R","I","#","s","l","a","s","h","#","b","u","l","b">>)

\* C13: every identity autodiscover_model returns has a non-empty manufacturer
\* and a non-empty model, and it returns one only when
\* has_manufacturer_and_model_information holds, which is only when the device
\* exists and its manufacturer and model are both present and not empty; a
\* device with None or "" as manufacturer or model gets no identity.
C13_IdentityOnlyFromCompleteDevice ==
  AutodiscoverReturned =>
    /\ ret.value # NoModelInfo =>
         Truthy(ret.value.manufacturer) /\ Truthy(ret.value.model)
    /\ ret.value # NoModelInfo => DeviceHasManufacturerAndModel
    /\ HasManufacturerAndModelInformationIn(call.arg.devices, call.arg.entity_entry)
         => DeviceHasManufacturerAndModel

\* the library has no profile the sweep can use for the entry at hand: it
\* raised ModelNotSupported, or its profile does not support the domain
NoUsableProfile ==
  LET outcome == GetPowerProfile(model_info) IN
  \/ outcome.kind = "ModelNotSupported"
  \/ outcome.kind = "profile" /\ ~IsEntityDomainSupported(outcome.profile, source_entity)

\* C14: a record carrying a power profile is dispatched only if the library
\* returned that profile for the entry's identity and the profile supports the
\* entry's domain; when the library raises ModelNotSupported, or the profile
\* does not support the domain, nothing is dispatched for the entry, no error
\* leaves the sweep, and the sweep goes on with the next entry of its snapshot.
C14_GenericLibraryRule ==
  [][ /\ (Len(flows') > Len(flows) /\ power_profile # NoProfile) =>
           /\ GetPowerProfile(model_info) = Outcome("profile", power_profile)
           /\ IsEntityDomainSupported(power_profile, source_entity)
      /\ (pc = "lookup" /\ pc' # "lookup" /\ NoUsableProfile) =>
           /\ pc' # "failed"
           /\ UNCHANGED <<flows, tasks>>
           /\ IF idx < Len(entities)
              THEN pc' = "check" /\ idx' = idx + 1
              ELSE pc' = "done"
    ]_vars

\* the library raised ModelNotSupported for the first entry, nothing was
\* dispatched for it, and the sweep is at its second entry
C14_Witness ==
  /\ pc = "check"
  /\ idx = 2
  /\ lookups = <<entities[1]>>
  /\ GetPowerProfile(AutodiscoverModel(RegistryEntryOf(entities[1]))).kind
       = "ModelNotSupported"
  /\ flows = <<>>

\* the entry at hand passes the tests of lines 164-179, so that
\* should_process_entity asks _is_user_configured
ReachesUserConfiguredCheck ==
  /\ ~entity_entry.disabled
  /\ entity_entry.domain \in DEVICE_DOMAINS
  /\ entity_entry.entity_category \notin {CATEGORY_CONFIG, CATEGORY_DIAGNOSTIC}

\* C15: the index is not rebuilt in the middle of a sweep. After the first
\* manual-configuration check of a sweep, every later check of that sweep
\* answers from the index as that first check left it, and leaves it as it
\* is, whatever user entries were created or removed while the sweep was
\* suspended, also when that index is empty.
C15_IndexStableWithinSweep ==
  [][ (pc = "check" /\ checks >= 1 /\ ReachesUserConfiguredCheck) =>
        /\ manually_configured_entities' = manually_configured_entities
        /\ (pc' = "resolve") <=>
             ~InList(Scalar(entity_entry.entity_id), manually_configured_entities.list)
    ]_vars

\* ---------------------------------------------------------------------------
\* The entity registry growing while a sweep is suspended
\* ---------------------------------------------------------------------------

\* the catalogue's entity after entity_id, the first one after the last
NextInCatalogue(entity_id) ==
  LET i == CHOOSE j \in 1..Len(CatalogueIds) : CatalogueIds[j] = entity_id
  IN CatalogueIds[(i % Len(CatalogueIds)) + 1]

\* an entity is registered while the sweep is suspended at an await: the
\* registry gets the catalogue's entity after its last one
AddRegistryEntry ==
  /\ Suspended
  /\ Len(registry) <= MaxRegistry
  /\ registry' = Append(registry, NextInCatalogue(registry[Len(registry)]))
  /\ dirty' = TRUE
  /\ UNCHANGED <<ha_config, store, manually_configured_entities, pc, entities, idx,
                 localVars, run, outVars, lookups, loads, checks, prevFlows,
                 prevTasks, cleanRun, visited, helperVars>>

NextRegistry == Sweep \/ HostBetweenRuns \/ HostDuringRun \/ AddRegistryEntry

\* sweeps with the store and the entity registry changing at their awaits
SpecRegistry == Init /\ [][NextRegistry]_vars

\* C16: a sweep works on the snapshot of the registry taken when it began: it
\* visits the snapshot's entries one by one in snapshot order, an entry
\* registered while it is suspended is not visited, the steps under way
\* always belong to the entry visited last, and when the run is over it has
\* visited exactly the entries that were registered when it began.
C16_SweepVisitsItsSnapshot ==
  /\ run >= 1 => /\ Len(visited) <= Len(entities)
                 /\ visited = SubSeq(entities, 1, Len(visited))
  /\ pc \in {"resolve", "create", "match", "lookup", "init"} =>
       /\ Len(visited) = idx
       /\ source_entity # NoSourceEntity =>
            source_entity.entity_id = visited[Len(visited)]
  /\ (Resting /\ run >= 1) => visited = entities

\* ---------------------------------------------------------------------------
\* Sweeps whose collaborators always reply
\* ---------------------------------------------------------------------------

\* a step of the running sweep: the stretch of start_discovery up to the next
\* await, taken when the awaited collaborator has replied
SweepStep ==
  ShouldProcess \/ Resolve \/ CreateSource \/ Match \/ Lookup \/ InitDiscovery

\* SpecConc with every await of a running sweep answered in the end; nothing
\* is assumed about new runs being started or about the store changing
SpecFair == Init /\ [][NextConc]_vars /\ WF_vars(SweepStep)

\* C17: when the collaborators reply to every await, every run of
\* start_discovery ends, and it ends having visited each entry of its
\* snapshot once; it waits for no dispatched flow and no legacy task.
C17_RunEndsAfterVisitingSnapshot ==
  (~Resting) ~> (Resting /\ visited = entities)

\* the step is one of start_discovery: a run begins, or the running sweep
\* moves on
SweepMoves == run' # run \/ pc' # pc \/ idx' # idx

\* C18: no step of start_discovery changes the entity registry, the
\* configuration entries or the declarative configuration; what a step writes
\* is the cached list of manually configured entities and the records it
\* dispatches. (The device registry is a constant of the model: no step at
\* all changes it.)
C18_SweepLeavesHostStateAlone ==
  [][ SweepMoves => UNCHANGED <<registry, ha_config, store>> ]_vars

\* a run is over that has written its cache and dispatched a record while
\* the store holds an entry created during that run
C18_Witness ==
  /\ pc = "done"
  /\ ~manually_configured_entities.is_none
  /\ flows # <<>>
  /\ dirty
  /\ store # {}

\* C19: the check for an existing entry and the dispatch are one step, with
\* no suspension between them: a flow is dispatched only by
\* _init_entity_discovery, and only if at that very moment the store holds no
\* entry under the entity's unique id or under "pc_" followed by it, so an
\* entry created during the awaits that came before, for the same entity, is
\* always seen.
C19_CheckThenDispatchIsAtomic ==
  [][ Len(flows') > Len(flows) =>
        LET unique_id == flows'[Len(flows')].data["source_entity"].unique_id IN
        /\ pc = "init"
        /\ source_entity.unique_id = unique_id
        /\ Len(flows') = Len(flows) + 1
        /\ store' = store
        /\ ~\E entry \in store' :
              \/ entry.unique_id = unique_id
              \/ entry.unique_id = <<"p","c","_">> \o unique_id
    ]_vars

\* _init_entity_discovery is about to run for the first entity of the first
\* sweep, and the store holds an entry for that entity that was created
\* while the sweep waited at the awaits for that same entity
C19_Witness ==
  /\ pc = "init"
  /\ run = 1
  /\ idx = 1
  /\ dirty
  /\ HasEntryUnderEitherKey(source_entity.unique_id)
====
